---- MODULE Spec2Model ----
(***************************************************************************)
(* The data-access layer of the task manager (task_manager/database.py)    *)
(* over its SQLite schema: four tables (categories, tasks, tags,           *)
(* task_tags) and the six public operations init_db, add_task, get_tasks,  *)
(* get_task, delete_task and update_tasks.                                 *)
(*                                                                         *)
(* Every operation opens its own connection, runs its statements in one    *)
(* implicit transaction and commits as its last statement.  An operation   *)
(* is one action: it is computed as a function from the committed database *)
(* and the arguments to the committed database afterwards and the outcome  *)
(* the caller sees (a returned value or a raised exception).  A statement  *)
(* that raises ends the operation: commit is not reached, and the          *)
(* uncommitted work of the dropped connection is discarded by SQLite.      *)
(***************************************************************************)
EXTENDS Integers, Sequences, FiniteSets, TLC

VARIABLES
    db,      \* the committed contents of the database file
    now,     \* the wall clock read by CURRENT_TIMESTAMP and datetime.now()
    call,    \* the last public operation called, with its arguments
    result,  \* what that call gave its caller: a value or an exception
    unclosed, \* a connection opened by an earlier call is still open
    running   \* per caller: the operation it is inside of, and how far

vars == <<db, now, call, result, unclosed, running>>

(***************************************************************************)
(* Bounds of the model.                                                    *)
(***************************************************************************)
\* the most task rows the stored database file holds at the start
MaxStored == 2
\* the last instant of the wall clock
MaxClock == 2

(***************************************************************************)
(* Values.                                                                 *)
(***************************************************************************)
\* SQL NULL / Python None in a text position
Null == "NULL"
\* SQL NULL / Python None in an integer (row id) position; row ids start at 1
NullId == 0

\* models.py: the members of the two string enums
TaskStatus == {"pending", "in_progress", "completed", "canceled"}
TaskPriority == {"low", "medium", "high", "urgent"}

\* default of get_tasks' limit parameter
DefaultLimit == 100

\* Python truthiness of an Optional[str]: None and "" are falsy
Truthy(s) == s # Null /\ s # ""

(***************************************************************************)
(* The schema created by init_db: the columns of each table.  A statement  *)
(* that names a column its table does not have fails when it is prepared   *)
(* (sqlite3.OperationalError), before it reads or writes anything.         *)
(***************************************************************************)
CategoriesColumns == {"id", "name", "color", "created_at"}
TasksColumns == {"id", "title", "description", "created_at", "updated_at",
                 "status", "priority", "category_id"}
TagsColumns == {"id", "name", "created_at"}
TaskTagsColumns == {"task_id", "tag_id"}

\* column DEFAULTs of the schema
DefaultColor == "white"
DefaultStatus == "pending"
DefaultPriority == "medium"

\* the seed rows of init_db, in insertion order
DefaultCategories ==
    << <<"Work", "blue">>, <<"Personal", "green">>, <<"Health", "red">>,
       <<"Finance", "yellow">>, <<"Education", "cyan">> >>

DefaultCategoryNames == {DefaultCategories[i][1] : i \in DOMAIN DefaultCategories}

(***************************************************************************)
(* Outcomes of a call.                                                     *)
(***************************************************************************)
Returned(v) == [outcome |-> "returned", value |-> v]
Raised(e) == [outcome |-> "raised", error |-> e]

\* the call returned None
ReturnedNone == [outcome |-> "returned None"]

(***************************************************************************)
(* Tables.  A table is the set of its rows; a row is a record of its       *)
(* columns (created_at of categories and tags is never read by any         *)
(* operation and is left out of their rows).                               *)
(***************************************************************************)
MaxOf(S) == CHOOSE m \in S : \A x \in S : x <= m

\* the rowid SQLite gives the next row of an INTEGER PRIMARY KEY table
NextId(rows) == IF rows = {} THEN 1 ELSE MaxOf({r.id : r \in rows}) + 1

CategoryByName(d, name) == {c \in d.categories : c.name = name}
TagByName(d, name) == {t \in d.tags : t.name = name}
TaskById(d, id) == {t \in d.tasks : t.id = id}

\* INSERT INTO categories (name, color) VALUES (?,?) ON CONFLICT(name) DO NOTHING
UpsertCategory(d, name, color) ==
    IF CategoryByName(d, name) # {} THEN d
    ELSE [d EXCEPT !.categories =
             @ \cup {[id |-> NextId(d.categories), name |-> name, color |-> color]}]

\* INSERT INTO tags (name) VALUES (?) ON CONFLICT(name) DO NOTHING
UpsertTag(d, name) ==
    IF TagByName(d, name) # {} THEN d
    ELSE [d EXCEPT !.tags = @ \cup {[id |-> NextId(d.tags), name |-> name]}]

(***************************************************************************)
(* init_db: the tables exist already (CREATE TABLE IF NOT EXISTS changes   *)
(* nothing); each default category is inserted unless its name is taken.   *)
(***************************************************************************)
RECURSIVE SeedCategories(_, _)
SeedCategories(d, i) ==
    IF i > Len(DefaultCategories) THEN d
    ELSE SeedCategories(
             UpsertCategory(d, DefaultCategories[i][1], DefaultCategories[i][2]),
             i + 1)

\* init_db seeding with INSERT OR REPLACE: the row that holds a default name
\* is deleted and a new row inserted in its place
RECURSIVE ReplaceCategories(_, _)
ReplaceCategories(d, i) ==
    IF i > Len(DefaultCategories) THEN d
    ELSE ReplaceCategories(
             [d EXCEPT !.categories =
                 {c \in @ : c.name # DefaultCategories[i][1]}
                 \cup {[id |-> NextId(@), name |-> DefaultCategories[i][1],
                        color |-> DefaultCategories[i][2]]}],
             i + 1)

InitDbReplaces(d) == [db |-> ReplaceCategories(d, 1), result |-> ReturnedNone]

InitDbOp(d) == [db |-> SeedCategories(d, 1), result |-> ReturnedNone]

(***************************************************************************)
(* The end of an operation.  Commit makes the connection's work the        *)
(* committed database.  An exception leaves the function before            *)
(* conn.commit(): the work done so far on the connection is not committed  *)
(* and later operations, on their own connections, see the database as it  *)
(* was.                                                                    *)
(***************************************************************************)
Commit(work, value) == [db |-> work, result |-> Returned(value)]
Abort(committed, error) == [db |-> committed, result |-> Raised(error)]

\* a statement of a running operation: the connection's view and the
\* exception it raised ("" when it raised none)
Work(d, e) == [db |-> d, err |-> e]

\* the value of column c of a row (NULL for a column the row does not hold)
Col(row, c) == IF c \in DOMAIN row THEN row[c] ELSE Null

(***************************************************************************)
(* add_task                                                                *)
(***************************************************************************)
\* the columns named by add_task's INSERT INTO tasks
AddTaskInsertColumns ==
    {"title", "description", "due_date", "status", "priority", "category_id"}

\* the tag loop of add_task (and, statement for statement, of update_tasks):
\* upsert the tag, look its id up, insert the association.  task_tags has
\* PRIMARY KEY (task_id, tag_id): a pair already present is an IntegrityError.
RECURSIVE AttachTags(_, _, _, _)
AttachTags(d, task_id, tags, i) ==
    IF i > Len(tags) THEN Work(d, "")
    ELSE LET d1 == UpsertTag(d, tags[i])
             tag_id == (CHOOSE t \in TagByName(d1, tags[i]) : TRUE).id
             pair == [task_id |-> task_id, tag_id |-> tag_id]
         IN  IF pair \in d1.task_tags THEN Work(d1, "IntegrityError")
             ELSE AttachTags([d1 EXCEPT !.task_tags = @ \cup {pair}],
                             task_id, tags, i + 1)

\* datetime.isoformat() on the datetime values of the model
IsoFormat(dt) ==
    CASE dt = "datetime(2024,1,1)" -> "2024-01-01T00:00:00"
      [] dt = "datetime(2024,2,1)" -> "2024-02-01T00:00:00"
      [] OTHER -> dt

\* the row add_task's INSERT stores: the named columns take the bound
\* values, created_at and updated_at their DEFAULT CURRENT_TIMESTAMP
NewTaskRow(id, task, category_id, t) ==
    LET full == [id |-> id, title |-> task.title,
                 description |-> task.description,
                 due_date |-> IF task.due_date = Null THEN Null
                              ELSE IsoFormat(task.due_date),
                 created_at |-> t, updated_at |-> t,
                 status |-> task.status, priority |-> task.priority,
                 category_id |-> category_id]
    IN  [c \in TasksColumns |-> full[c]]

\* add_task with the category resolved by an upsert that is committed on its
\* own, before the INSERT INTO tasks is executed
AddTaskCommitsCategory(d, task, t) ==
    LET d0 == IF Truthy(task.category)
              THEN UpsertCategory(d, task.category, DefaultColor) ELSE d
    IN  IF ~(AddTaskInsertColumns \subseteq TasksColumns)
        THEN Abort(d0, "OperationalError")
        ELSE Commit([d0 EXCEPT !.tasks =
                        @ \cup {NewTaskRow(NextId(d0.tasks), task, NullId, t)}],
                    NextId(d0.tasks))

AddTaskOp(d, task, t) ==
    IF Truthy(task.category)
    THEN \* line 119: "SELECT ..." (task.category,) calls a str
         Abort(d, "TypeError")
    ELSE IF ~(AddTaskInsertColumns \subseteq TasksColumns)
    THEN \* table tasks has no column named due_date
         Abort(d, "OperationalError")
    ELSE LET task_id == NextId(d.tasks)
             d1 == [d EXCEPT !.tasks = @ \cup {NewTaskRow(task_id, task, NullId, t)}]
             w == IF Len(task.tags) > 0 THEN AttachTags(d1, task_id, task.tags, 1)
                  ELSE Work(d1, "")
         IN  IF w.err # "" THEN Abort(d, w.err) ELSE Commit(w.db, task_id)

(***************************************************************************)
(* get_task                                                                *)
(***************************************************************************)
\* the columns of tasks named by get_task's SELECT
GetTaskSelectColumns ==
    {"id", "title", "description", "due_date", "status", "priority", "category_id"}

\* LEFT JOIN categories c ON t.category_id = c.id: the joined row's column,
\* NULL when no category row matches
JoinedCategory(d, row, column) ==
    LET cs == {c \in d.categories : c.id = row.category_id}
    IN  IF cs = {} THEN Null ELSE (CHOOSE c \in cs : TRUE)[column]

\* SELECT tg.name FROM tags tg JOIN task_tags tt ON tg.id = tt.tag_id
\* WHERE tt.task_id = ?   (row order is not specified: the names as a set)
TagNamesOf(d, task_id) ==
    {tg.name : tg \in {t \in d.tags :
        [task_id |-> task_id, tag_id |-> t.id] \in d.task_tags}}

GetTaskOp(d, task_id) ==
    IF ~(GetTaskSelectColumns \subseteq TasksColumns)
    THEN \* no such column: t.due_date
         Raised("OperationalError")
    ELSE IF TaskById(d, task_id) = {} THEN ReturnedNone
    ELSE LET row == CHOOSE t \in TaskById(d, task_id) : TRUE
         IN  Returned([id |-> row.id, title |-> row.title,
                       description |-> row.description,
                       due_date |-> Col(row, "due_date"),
                       status |-> row.status, priority |-> row.priority,
                       category |-> JoinedCategory(d, row, "name"),
                       category_color |-> JoinedCategory(d, row, "color"),
                       tags |-> TagNamesOf(d, task_id)])

(***************************************************************************)
(* delete_task                                                             *)
(***************************************************************************)
\* the DELETE on a connection where foreign keys are not enforced: the
\* task's associations stay
DeleteTaskRowNoCascade(d, task_id) ==
    [d EXCEPT !.tasks = {t \in @ : t.id # task_id}]

\* the DELETE with the cascade reaching the associations of every task
DeleteTaskRowAllTags(d, task_id) ==
    [d EXCEPT !.tasks = {t \in @ : t.id # task_id}, !.task_tags = {}]

\* DELETE FROM tasks WHERE id = ? on a connection with foreign_keys = ON:
\* task_tags.task_id is declared ON DELETE CASCADE
DeleteTaskRow(d, task_id) ==
    [d EXCEPT !.tasks = {t \in @ : t.id # task_id},
              !.task_tags = {p \in @ : p.task_id # task_id}]

\* delete_task without the lookup that returns False for a missing task
DeleteTaskUnchecked(d, task_id) ==
    Commit(DeleteTaskRow(d, task_id), TRUE)

DeleteTaskOp(d, task_id) ==
    IF TaskById(d, task_id) = {} THEN [db |-> d, result |-> Returned(FALSE)]
    ELSE Commit(DeleteTaskRow(d, task_id), TRUE)

(***************************************************************************)
(* update_tasks                                                            *)
(***************************************************************************)
\* dict operations on task_data (a function from its keys to their values)
Without(f, k) == [x \in DOMAIN f \ {k} |-> f[x]]
With(f, k, v) == [x \in DOMAIN f \cup {k} |-> IF x = k THEN v ELSE f[x]]

\* isinstance(v, datetime)
IsDatetime(v) == v \in {"datetime(2024,1,1)", "datetime(2024,2,1)"}

\* datetime.now().isoformat() at instant t: the instant stands for its text
NowIso(t) == t

\* the columns named by the two lookups "SELECT if FROM ... WHERE ... = ?"
UpdateSelectTaskColumns == {"if", "id"}
UpdateSelectCategoryColumns == {"if", "name"}

\* f"field = ?" for field in task_data.keys(): the f-string interpolates
\* nothing, every key is rendered as the column name "field"
Placeholder(key) == "field"

\* lines 346-359: the category key.  The else branch belongs to
\* `if "category" in task_data`.
UpdateCategory(d, task_data) ==
    IF "category" \in DOMAIN task_data
    THEN LET category_name == task_data["category"]
             data == Without(task_data, "category")
         IN  IF ~Truthy(category_name) THEN [db |-> d, err |-> "", data |-> data]
             ELSE IF ~(UpdateSelectCategoryColumns \subseteq CategoriesColumns)
             THEN [db |-> d, err |-> "OperationalError", data |-> data]
             ELSE IF CategoryByName(d, category_name) # {}
             THEN [db |-> d, err |-> "",
                   data |-> With(data, "category_id",
                       (CHOOSE c \in CategoryByName(d, category_name) : TRUE).id)]
             ELSE [db |-> UpsertCategory(d, category_name, DefaultColor),
                   err |-> "",
                   data |-> With(data, "category_id", NextId(d.categories))]
    ELSE [db |-> d, err |-> "", data |-> With(task_data, "category_id", NullId)]

\* lines 365-372: UPDATE tasks SET <placeholders> WHERE id = ?
UpdateRow(d, task_id, data) ==
    LET columns == {Placeholder(k) : k \in DOMAIN data}
    IN  IF ~(columns \subseteq TasksColumns) THEN Work(d, "OperationalError")
        ELSE Work([d EXCEPT !.tasks =
                 {IF r.id # task_id THEN r
                  ELSE [c \in DOMAIN r |->
                           IF c \in columns
                           THEN data[CHOOSE k \in DOMAIN data : Placeholder(k) = c]
                           ELSE r[c]] : r \in @}], "")

\* lines 374-385: full replacement of the task's tag associations
ReplaceTags(d, task_id, tags) ==
    AttachTags([d EXCEPT !.task_tags = {p \in @ : p.task_id # task_id}],
               task_id, tags, 1)

UpdateTasksOp(d, task_id, task_data, t) ==
    IF ~(UpdateSelectTaskColumns \subseteq TasksColumns)
    THEN \* line 341: no such column: if
         Abort(d, "OperationalError")
    ELSE IF TaskById(d, task_id) = {} THEN [db |-> d, result |-> Returned(FALSE)]
    ELSE LET c == UpdateCategory(d, task_data)
             has_tags == "tags" \in DOMAIN c.data
             tags == IF has_tags THEN c.data["tags"] ELSE <<>>
             data1 == Without(c.data, "tags")
             data2 == IF "due_date" \in DOMAIN data1 /\ IsDatetime(data1["due_date"])
                      THEN With(data1, "due_date", IsoFormat(data1["due_date"]))
                      ELSE data1
             u == IF c.err # "" THEN Work(c.db, c.err)
                  ELSE IF DOMAIN data2 # {}
                  THEN UpdateRow(c.db, task_id, With(data2, "updated_at", NowIso(t)))
                  ELSE Work(c.db, "")
             w == IF u.err # "" \/ ~has_tags THEN u
                  ELSE ReplaceTags(u.db, task_id, tags)
         IN  IF w.err # "" THEN Abort(d, w.err) ELSE Commit(w.db, TRUE)

(***************************************************************************)
(* get_tasks                                                               *)
(***************************************************************************)
\* the columns of tasks named by get_tasks' SELECT and ORDER BY
GetTasksSelectColumns ==
    {"id", "title", "description", "due_date", "created_at", "updated_at",
     "status", "priority", "category_id"}

\* SQLite's comparison of the TEXT values a column holds, as a rank: NULL
\* sorts before every text, texts sort by their bytes (BINARY collation)
PriorityTextRank(p) ==
    CASE p = "high" -> 1 [] p = "low" -> 2 [] p = "medium" -> 3
      [] p = "urgent" -> 4 [] OTHER -> 0

DueDateTextRank(x) ==
    CASE x = "2024-01-01T00:00:00" -> 1 [] x = "2024-02-01T00:00:00" -> 2
      [] OTHER -> 0

\* text LIKE '%search%': a case-insensitive (ASCII) substring match, on the
\* texts and search terms of the model
Like(text, search) ==
    \/ search = "invoice" /\ text \in {"Send invoice", "pay the INVOICE"}
    \/ search = "mom" /\ text \in {"Call mom"}

\* FROM tasks t LEFT JOIN categories c [JOIN task_tags tt JOIN tags tg]:
\* with a tag filter one joined row per association of the task (the tag's
\* name is bound to no WHERE clause), without it one row per task
JoinedRows(d, f) ==
    IF Truthy(f.tag)
    THEN {[task |-> t, tag_id |-> p.tag_id] :
             <<t, p>> \in {x \in d.tasks \X d.task_tags : x[1].id = x[2].task_id}}
    ELSE {[task |-> t, tag_id |-> NullId] : t \in d.tasks}

\* the WHERE clauses, joined with AND
Matches(d, f, t) ==
    /\ Truthy(f.status) => t.status = f.status
    /\ Truthy(f.priority) => t.priority = f.priority
    /\ Truthy(f.category) => JoinedCategory(d, t, "name") = f.category
    /\ Truthy(f.search) =>
          Like(t.title, f.search) \/ Like(t.description, f.search)

\* ORDER BY t.due_date ASC, t.priority DESC, t.id DESC (rows that tie on
\* all three are copies of one task: their order shows nowhere)
Before(a, b) ==
    LET da == DueDateTextRank(Col(a.task, "due_date"))
        dd == DueDateTextRank(Col(b.task, "due_date"))
        pa == PriorityTextRank(a.task.priority)
        pb == PriorityTextRank(b.task.priority)
    IN  \/ da < dd
        \/ da = dd /\ pa > pb
        \/ da = dd /\ pa = pb /\ a.task.id > b.task.id
        \/ da = dd /\ pa = pb /\ a.task.id = b.task.id /\ a.tag_id < b.tag_id

RECURSIVE Ordered(_)
Ordered(rows) ==
    IF rows = {} THEN <<>>
    ELSE LET first == CHOOSE r \in rows : \A o \in rows \ {r} : Before(r, o)
         IN  <<first>> \o Ordered(rows \ {first})

\* LIMIT ?
Limit(rows, limit) == SubSeq(rows, 1, IF Len(rows) < limit THEN Len(rows) ELSE limit)

\* dict(row) of one row of the SELECT
TaskDict(d, t) ==
    [id |-> t.id, title |-> t.title, description |-> t.description,
     due_date |-> Col(t, "due_date"), created_at |-> t.created_at,
     updated_at |-> t.updated_at, status |-> t.status, priority |-> t.priority,
     category |-> JoinedCategory(d, t, "name"),
     category_color |-> JoinedCategory(d, t, "color")]

GetTasksOp(d, f, limit) ==
    IF ~(GetTasksSelectColumns \subseteq TasksColumns)
    THEN \* no such column: t.due_date
         Raised("OperationalError")
    ELSE LET rows == Limit(Ordered({r \in JoinedRows(d, f) : Matches(d, f, r.task)}),
                           limit)
             tasks == [i \in DOMAIN rows |-> TaskDict(d, rows[i].task)]
         IN  IF Len(tasks) > 0
             THEN \* line 241, for the first task: the parameter bound is
                  \* the list [task['id']], which sqlite3 cannot bind
                  Raised("ProgrammingError")
             ELSE Returned(tasks)

(***************************************************************************)
(* Connections.  Every operation opens a connection with                   *)
(* get_db_connection() as its first statement and calls conn.close() right *)
(* before each return.  No operation has a try/finally or a with block: a  *)
(* statement that raises leaves the function with the connection open.     *)
(* The connection is closed later, when the interpreter finalizes the      *)
(* unreachable Connection object.                                          *)
(***************************************************************************)
\* the call's connection is still open when the caller has control again
LeftOpen(r) == r.outcome = "raised"

(***************************************************************************)
(* The database file at the start.  The file outlives the process: what    *)
(* it holds is an input of every run.  It is a file init_db has been run   *)
(* on, holding up to MaxStored task rows, with their category, tag and     *)
(* association rows, that satisfy the schema's constraints (primary keys,  *)
(* UNIQUE names, foreign keys), written before the clock's first instant.  *)
(***************************************************************************)
EmptyDb == [categories |-> {}, tasks |-> {}, tags |-> {}, task_tags |-> {}]

\* the task rows a stored file is filled from
StoredSamples ==
    << [title |-> "Send invoice", description |-> Null, status |-> "pending",
       priority |-> "high", category |-> "Work",
       tags |-> <<"urgent-fix", "home">>],
      [title |-> "Call mom", description |-> "pay the INVOICE",
       status |-> "completed", priority |-> "medium", category |-> Null,
       tags |-> <<>>],
      [title |-> "Send invoice", description |-> Null, status |-> "pending",
       priority |-> "urgent", category |-> "Errands",
       tags |-> <<"urgent-fix">>],
      [title |-> "Call mom", description |-> Null, status |-> "in_progress",
       priority |-> "low", category |-> "Work", tags |-> <<"home">>] >>

\* one stored row with its category and tag rows, as the schema relates them
StoreTask(d, s) ==
    LET d1 == IF Truthy(s.category)
              THEN UpsertCategory(d, s.category, DefaultColor) ELSE d
        category_id == IF Truthy(s.category)
                       THEN (CHOOSE c \in CategoryByName(d1, s.category) : TRUE).id
                       ELSE NullId
        task_id == NextId(d1.tasks)
        row == [id |-> task_id, title |-> s.title, description |-> s.description,
                created_at |-> 0, updated_at |-> 0, status |-> s.status,
                priority |-> s.priority, category_id |-> category_id]
    IN  AttachTags([d1 EXCEPT !.tasks = @ \cup {row}], task_id, s.tags, 1).db

RECURSIVE StoreTasks(_, _, _)
StoreTasks(d, samples, i) ==
    IF i > Len(samples) THEN d
    ELSE StoreTasks(StoreTask(d, samples[i]), samples, i + 1)

\* a default category's row may hold another colour than init_db's
StoredCategoryTables ==
    { {}, {[id |-> 1, name |-> "Work", color |-> "purple"]} }

\* the files of up to MaxStored rows; rows of equal content may repeat
StoredRows ==
    { [i \in DOMAIN s |-> StoredSamples[s[i]]] :
        s \in { q \in UNION {[1..n -> DOMAIN StoredSamples] : n \in 0..MaxStored} :
                   \A i, j \in DOMAIN q : i < j => q[i] <= q[j] } }

StoredDatabases ==
    { StoreTasks(InitDbOp([EmptyDb EXCEPT !.categories = cs]).db, samples, 1) :
        <<cs, samples>> \in StoredCategoryTables \X StoredRows }

(***************************************************************************)
(* The arguments the operations are called with.                           *)
(***************************************************************************)
TaskIds == 1..(MaxStored + 1)

\* Task objects: the optional fields all left out (status and priority then
\* None) or all supplied, with each kind of category and of tag list
Tasks ==
    { [title |-> "Send invoice", description |-> o[1], due_date |-> o[2],
       status |-> o[3], priority |-> o[4], category |-> c, tags |-> tg] :
        o \in { <<Null, Null, Null, Null>>,
                <<"pay the INVOICE", "datetime(2024,1,1)", "completed", "urgent">> },
        c \in {Null, "Work", "Errands"},
        tg \in { <<>>, <<"urgent-fix", "home">>, <<"home", "home">> } }

\* the partial records of update_tasks
TaskData ==
    { [status |-> "completed"],
      [title |-> "Call mom", priority |-> "low"],
      [due_date |-> "datetime(2024,2,1)"],
      [category |-> ""],
      [category |-> "Errands"],
      [category |-> "Work", status |-> "canceled"],
      [tags |-> <<>>],
      [tags |-> <<"home">>],
      [category |-> "Groceries", tags |-> <<"later">>] }

Filters ==
    { [status |-> Null, priority |-> Null, category |-> Null, tag |-> Null,
       search |-> Null],
      [status |-> Null, priority |-> Null, category |-> Null,
       tag |-> "urgent-fix", search |-> Null],
      [status |-> Null, priority |-> Null, category |-> Null, tag |-> "home",
       search |-> Null],
      [status |-> "pending", priority |-> Null, category |-> "Work",
       tag |-> Null, search |-> Null],
      [status |-> Null, priority |-> "medium", category |-> Null, tag |-> Null,
       search |-> "invoice"],
      [status |-> "canceled", priority |-> Null, category |-> Null, tag |-> Null,
       search |-> Null] }

Limits == {1, DefaultLimit}

(***************************************************************************)
(* Two callers, each on a connection of its own.  A caller inside          *)
(* add_task or update_tasks executes the function's statements in turn,    *)
(* and the other caller's statements may come in between.  SQLite gives    *)
(* the file one writer at a time: from a connection's first INSERT, UPDATE *)
(* or DELETE to its commit no other connection writes, and the others read *)
(* the committed rows.  The statements from the first write to the commit  *)
(* are therefore one step; the lookups before it are steps of their own.   *)
(***************************************************************************)
Callers == {1, 2}

Idle == [pc |-> "idle"]

\* the calls that name a category or a tag to resolve
RaceCalls ==
    { [op |-> "add_task", task |-> task] :
        task \in { k \in Tasks : /\ k.description = Null
                                 /\ Truthy(k.category) \/ Len(k.tags) > 0 } }
    \cup
    { [op |-> "update_tasks", task_id |-> 1, task_data |-> task_data] :
        task_data \in { k \in TaskData :
            \/ "category" \in DOMAIN k /\ Truthy(k["category"])
            \/ "tags" \in DOMAIN k /\ Len(k["tags"]) > 0 } }

\* the category and tag names a call has to resolve
NamedCategory(k) ==
    IF k.op = "add_task"
    THEN IF Truthy(k.task.category) THEN {k.task.category} ELSE {}
    ELSE IF "category" \in DOMAIN k.task_data /\ Truthy(k.task_data["category"])
         THEN {k.task_data["category"]} ELSE {}

NamedTags(k) ==
    IF k.op = "add_task" THEN {k.task.tags[i] : i \in DOMAIN k.task.tags}
    ELSE IF "tags" \in DOMAIN k.task_data
         THEN {k.task_data["tags"][i] : i \in DOMAIN k.task_data["tags"]}
         ELSE {}

\* the caller goes on to its next statement / the call ends
GoOn(d, r, pc) == [db |-> d, running |-> [r EXCEPT !.pc = pc]]
EndWith(r, o) ==
    [db |-> o.db, running |-> [r EXCEPT !.pc = "done", !.result = o.result]]

\* one step of add_task: the category lookup of lines 116-123, then the
\* writes of lines 127-152
AddTaskStep(d, r, t) ==
    LET task == r.call.task
    IN  IF r.pc = "start"
        THEN IF Truthy(task.category)
             THEN \* line 119: "SELECT ..." (task.category,) calls a str
                  EndWith(r, Abort(d, "TypeError"))
             ELSE GoOn(d, r, "write")
        ELSE EndWith(r, AddTaskOp(d, task, t))

\* one step of update_tasks: the lookup of lines 341-344, the category
\* lookup of lines 346-353, then the writes of lines 355-386.  An INSERT
\* INTO categories of a name another connection has committed since the
\* lookup violates UNIQUE (name).
UpdateTasksStep(d, r, t) ==
    LET task_id == r.call.task_id
        task_data == r.call.task_data
        names == NamedCategory(r.call)
    IN  CASE r.pc = "start" ->
               IF ~(UpdateSelectTaskColumns \subseteq TasksColumns)
               THEN EndWith(r, Abort(d, "OperationalError"))
               ELSE IF TaskById(d, task_id) = {}
               THEN EndWith(r, [db |-> d, result |-> Returned(FALSE)])
               ELSE GoOn(d, r, "category")
          [] r.pc = "category" ->
               IF names = {} THEN GoOn(d, r, "write")
               ELSE IF ~(UpdateSelectCategoryColumns \subseteq CategoriesColumns)
               THEN EndWith(r, Abort(d, "OperationalError"))
               ELSE GoOn(d, [r EXCEPT !.found =
                                UNION {CategoryByName(d, n) : n \in names}],
                         "write")
          [] OTHER ->
               IF /\ names # {}
                  /\ r.found = {}
                  /\ \E n \in names : CategoryByName(d, n) # {}
               THEN EndWith(r, Abort(d, "IntegrityError"))
               ELSE EndWith(r, UpdateTasksOp(d, task_id, task_data, t))

(***************************************************************************)
(* The state machine: one action per public operation.                     *)
(***************************************************************************)
Init ==
    /\ db \in StoredDatabases
    /\ now = 1
    /\ call = [op |-> "none"]
    /\ result = [outcome |-> "no call"]
    /\ unclosed = FALSE
    /\ running = [c \in Callers |-> Idle]

InitDb ==
    /\ db' = InitDbOp(db).db
    /\ result' = InitDbOp(db).result
    /\ call' = [op |-> "init_db"]
    /\ unclosed' = (unclosed \/ LeftOpen(result'))
    /\ UNCHANGED <<now, running>>

AddTask ==
    \E task \in Tasks :
        /\ db' = AddTaskOp(db, task, now).db
        /\ result' = AddTaskOp(db, task, now).result
        /\ call' = [op |-> "add_task", task |-> task]
        /\ unclosed' = (unclosed \/ LeftOpen(result'))
        /\ UNCHANGED <<now, running>>

GetTasks ==
    \E f \in Filters, limit \in Limits :
        /\ result' = GetTasksOp(db, f, limit)
        /\ call' = [op |-> "get_tasks", filters |-> f, limit |-> limit]
        /\ unclosed' = (unclosed \/ LeftOpen(result'))
        /\ UNCHANGED <<db, now, running>>

GetTask ==
    \E task_id \in TaskIds :
        /\ result' = GetTaskOp(db, task_id)
        /\ call' = [op |-> "get_task", task_id |-> task_id]
        /\ unclosed' = (unclosed \/ LeftOpen(result'))
        /\ UNCHANGED <<db, now, running>>

DeleteTask ==
    \E task_id \in TaskIds :
        /\ db' = DeleteTaskOp(db, task_id).db
        /\ result' = DeleteTaskOp(db, task_id).result
        /\ call' = [op |-> "delete_task", task_id |-> task_id]
        /\ unclosed' = (unclosed \/ LeftOpen(result'))
        /\ UNCHANGED <<now, running>>

UpdateTasks ==
    \E task_id \in TaskIds, task_data \in TaskData :
        /\ db' = UpdateTasksOp(db, task_id, task_data, now).db
        /\ result' = UpdateTasksOp(db, task_id, task_data, now).result
        /\ call' = [op |-> "update_tasks", task_id |-> task_id,
                    task_data |-> task_data]
        /\ unclosed' = (unclosed \/ LeftOpen(result'))
        /\ UNCHANGED <<now, running>>

\* time passes between calls
Tick ==
    /\ now < MaxClock
    /\ now' = now + 1
    /\ UNCHANGED <<db, call, result, unclosed, running>>

\* the interpreter finalizes the Connection objects no frame refers to any
\* more, which closes them
Finalize ==
    /\ unclosed
    /\ unclosed' = FALSE
    /\ UNCHANGED <<db, now, call, result, running>>

Next ==
    \/ InitDb
    \/ AddTask
    \/ GetTasks
    \/ GetTask
    \/ DeleteTask
    \/ UpdateTasks
    \/ Tick
    \/ Finalize

Spec == Init /\ [][Next]_vars

(***************************************************************************)
(* The state machine of two callers whose operations interleave.           *)
(***************************************************************************)
InCall(r) == r.pc \notin {"idle", "done"}

\* caller c calls add_task or update_tasks
Begin(c) ==
    \E k \in RaceCalls :
        /\ running[c] = Idle
        /\ LET other == CHOOSE o \in Callers : o # c
               overlap == InCall(running[other])
           IN  running' =
                 [running EXCEPT
                    ![c] = [pc |-> "start", call |-> k, found |-> {},
                            overlap |-> overlap,
                            absent |-> [categories |->
                                          {n \in NamedCategory(k) :
                                             CategoryByName(db, n) = {}},
                                        tags |->
                                          {n \in NamedTags(k) :
                                             TagByName(db, n) = {}}],
                            result |-> [outcome |-> "no call"]],
                    ![other] = IF overlap THEN [@ EXCEPT !.overlap = TRUE]
                               ELSE @]
        /\ UNCHANGED <<db, now, call, result, unclosed>>

\* caller c executes the next step of its operation
Step(c) ==
    /\ InCall(running[c])
    /\ LET r == running[c]
           s == IF r.call.op = "add_task" THEN AddTaskStep(db, r, now)
                ELSE UpdateTasksStep(db, r, now)
       IN  /\ db' = s.db
           /\ running' = [running EXCEPT ![c] = s.running]
           /\ IF s.running.pc = "done"
              THEN /\ call' = r.call
                   /\ result' = s.running.result
                   /\ unclosed' = (unclosed \/ LeftOpen(result'))
              ELSE UNCHANGED <<call, result, unclosed>>
    /\ UNCHANGED now

NextRace ==
    \/ \E c \in Callers : Begin(c)
    \/ \E c \in Callers : Step(c)
    \/ Finalize

SpecRace == Init /\ [][NextRace]_vars

(***************************************************************************)
(* Properties.                                                             *)
(***************************************************************************)
Range(seq) == {seq[i] : i \in DOMAIN seq}

\* the row of an existing task
TaskRow(d, task_id) == CHOOSE t \in TaskById(d, task_id) : TRUE

\* this step is a call of operation op: time does not pass during a call,
\* and a call closes no connection an earlier call left open
IsCall(op) == now' = now /\ (unclosed => unclosed') /\ call'.op = op

ReturnedValue(r, v) == r.outcome = "returned" /\ r.value = v

\* C1: a task created by add_task is returned by a get_task on the returned
\* identifier right afterwards, with the same title and with every
\* supplied optional field reflected (category name, tag names as a set).
C1_CreateThenGet ==
    call.op = "add_task" =>
        /\ result.outcome = "returned"
        /\ GetTaskOp(db, result.value).outcome = "returned"
        /\ LET got == GetTaskOp(db, result.value).value
               task == call.task
           IN  /\ got.title = task.title
               /\ got.description = task.description
               /\ got.due_date = IF task.due_date = Null THEN Null
                                 ELSE IsoFormat(task.due_date)
               /\ got.status = task.status
               /\ got.priority = task.priority
               /\ got.category = IF Truthy(task.category) THEN task.category
                                 ELSE Null
               /\ got.tags = Range(task.tags)

\* C2: update_tasks on an existing task returns true, changes updated_at
\* and leaves every field whose key is absent from the partial record as it
\* was (title, description, status, priority, category reference, tags).
C2_UpdateOnlySupplied ==
    [][ (IsCall("update_tasks") /\ TaskById(db, call'.task_id) # {}) =>
          /\ ReturnedValue(result', TRUE)
          /\ TaskById(db', call'.task_id) # {}
          /\ LET before == TaskRow(db, call'.task_id)
                 after == TaskRow(db', call'.task_id)
                 keys == DOMAIN call'.task_data
             IN  /\ \A k \in {"title", "description", "status", "priority"} \ keys :
                        after[k] = before[k]
                 /\ "category" \notin keys => after.category_id = before.category_id
                 /\ "tags" \notin keys =>
                        TagNamesOf(db', call'.task_id) = TagNamesOf(db, call'.task_id)
                 /\ after.updated_at # before.updated_at ]_vars

\* C3: update_tasks on an existing task with a category key: an empty value
\* leaves the task with no category reference, a name leaves it referencing
\* the category row of exactly that name (the existing row when there was
\* one).
C3_UpdateCategoryKey ==
    [][ ( /\ IsCall("update_tasks")
          /\ TaskById(db, call'.task_id) # {}
          /\ "category" \in DOMAIN call'.task_data ) =>
          /\ ReturnedValue(result', TRUE)
          /\ TaskById(db', call'.task_id) # {}
          /\ LET after == TaskRow(db', call'.task_id)
                 name == call'.task_data["category"]
             IN  IF ~Truthy(name) THEN after.category_id = NullId
                 ELSE /\ \E c \in CategoryByName(db', name) :
                             c.id = after.category_id
                      /\ CategoryByName(db, name) \subseteq CategoryByName(db', name)
                      /\ Cardinality(CategoryByName(db', name)) = 1 ]_vars

\* C4: update_tasks on an existing task with a tags key leaves the task
\* associated with exactly the names of the supplied list (none for an
\* empty list), whatever it was associated with before.
C4_UpdateReplacesTags ==
    [][ ( /\ IsCall("update_tasks")
          /\ TaskById(db, call'.task_id) # {}
          /\ "tags" \in DOMAIN call'.task_data ) =>
          /\ ReturnedValue(result', TRUE)
          /\ TagNamesOf(db', call'.task_id) = Range(call'.task_data["tags"]) ]_vars

\* C5: an add_task or update_tasks call in which a statement fails leaves
\* all four tables, as later operations see them, as they were before it.
C5_FailedWriteChangesNothing ==
    [][ ( /\ \E op \in {"add_task", "update_tasks"} : IsCall(op)
          /\ result'.outcome = "raised" ) => db' = db ]_vars

\* a failed add_task that named a category the database does not hold, and
\* tags
C5_Witness ==
    /\ call.op = "add_task"
    /\ result.outcome = "raised"
    /\ Truthy(call.task.category)
    /\ CategoryByName(db, call.task.category) = {}
    /\ Len(call.task.tags) > 0

\* C6: delete_task on an existing identifier returns true; afterwards no
\* task row and no association row holds the identifier, get_task on it
\* returns None, and a second delete_task on it returns false.
C6_DeleteExisting ==
    [][ (IsCall("delete_task") /\ TaskById(db, call'.task_id) # {}) =>
          /\ ReturnedValue(result', TRUE)
          /\ TaskById(db', call'.task_id) = {}
          /\ \A p \in db'.task_tags : p.task_id # call'.task_id
          /\ GetTaskOp(db', call'.task_id) = ReturnedNone
          /\ ReturnedValue(DeleteTaskOp(db', call'.task_id).result, FALSE) ]_vars

\* C7: update_tasks on an identifier no task has returns false, raises
\* nothing and leaves all four tables as they were.
C7_UpdateMissing ==
    [][ (IsCall("update_tasks") /\ TaskById(db, call'.task_id) = {}) =>
          /\ ReturnedValue(result', FALSE)
          /\ db' = db ]_vars

\* C8: delete_task on an identifier no task has returns false and leaves
\* the row count of every table as it was.
C8_DeleteMissing ==
    [][ (IsCall("delete_task") /\ TaskById(db, call'.task_id) = {}) =>
          /\ ReturnedValue(result', FALSE)
          /\ \A table \in DOMAIN db :
                 Cardinality(db'[table]) = Cardinality(db[table]) ]_vars

\* a delete_task that found no task with its identifier, in a database that
\* holds tasks and associations
C8_Witness ==
    /\ call.op = "delete_task"
    /\ TaskById(db, call.task_id) = {}
    /\ ReturnedValue(result, FALSE)
    /\ db.tasks # {}
    /\ db.task_tags # {}

\* C9: get_tasks with a tag filter returns only tasks associated with a
\* tag of exactly that name, each of them at most once.
C9_TagFilter ==
    (call.op = "get_tasks" /\ Truthy(call.filters.tag)) =>
        /\ result.outcome = "returned"
        /\ \A i \in DOMAIN result.value :
               /\ call.filters.tag \in TagNamesOf(db, result.value[i].id)
               /\ \A j \in DOMAIN result.value :
                      result.value[i].id = result.value[j].id => i = j

\* the order the tasks are to be listed in: due date ascending with the
\* tasks without one last, then urgent > high > medium > low, then the
\* greater identifier first
PriorityRank(p) ==
    CASE p = "low" -> 1 [] p = "medium" -> 2 [] p = "high" -> 3
      [] p = "urgent" -> 4 [] OTHER -> 0

DueDateLast(x) == IF DueDateTextRank(x) = 0 THEN 3 ELSE DueDateTextRank(x)

ListedBefore(a, b) ==
    LET da == DueDateLast(Col(a, "due_date"))
        dd == DueDateLast(Col(b, "due_date"))
    IN  \/ da < dd
        \/ da = dd /\ PriorityRank(a.priority) > PriorityRank(b.priority)
        \/ da = dd /\ PriorityRank(a.priority) = PriorityRank(b.priority)
                   /\ a.id > b.id

RECURSIVE Listed(_)
Listed(tasks) ==
    IF tasks = {} THEN <<>>
    ELSE LET first == CHOOSE t \in tasks : \A o \in tasks \ {t} : ListedBefore(t, o)
         IN  <<first.id>> \o Listed(tasks \ {first})

\* the tasks that satisfy every supplied filter
MatchingTasks(d, f) ==
    {t \in d.tasks : /\ Matches(d, f, t)
                     /\ Truthy(f.tag) => f.tag \in TagNamesOf(d, t.id)}

\* C10: get_tasks returns the first min(limit, number of matching tasks)
\* tasks of the matching set in that order.
C10_OrderAndLimit ==
    call.op = "get_tasks" =>
        /\ result.outcome = "returned"
        /\ [i \in DOMAIN result.value |-> result.value[i].id]
               = Limit(Listed(MatchingTasks(db, call.filters)), call.limit)

\* C11: with a limit of at least the number of tasks and no tag filter,
\* get_tasks returns exactly the tasks that satisfy every supplied filter
\* among status, priority, category name and search text (an exact match
\* each, the search a case-insensitive substring of title or description);
\* a filter that is not supplied excludes nothing.
C11_FiltersCombine ==
    ( /\ call.op = "get_tasks"
      /\ ~Truthy(call.filters.tag)
      /\ call.limit >= Cardinality(db.tasks) ) =>
        /\ result.outcome = "returned"
        /\ {result.value[i].id : i \in DOMAIN result.value}
               = {t.id : t \in MatchingTasks(db, call.filters)}

\* C12: an init_db call raises nothing, leaves each default category name
\* on exactly one row, and leaves every row that existed before it as it
\* was: the category rows (also a default name's row of another colour),
\* the tasks, the tags and the associations.
C12_InitIdempotent ==
    [][ IsCall("init_db") =>
          /\ result' = ReturnedNone
          /\ \A name \in DefaultCategoryNames :
                 Cardinality(CategoryByName(db', name)) = 1
          /\ db.categories \subseteq db'.categories
          /\ db'.tasks = db.tasks
          /\ db'.tags = db.tags
          /\ db'.task_tags = db.task_tags ]_vars

\* init_db called on a database that holds tasks, tags and a default
\* category in a colour that is not init_db's
C12_Witness ==
    /\ call.op = "init_db"
    /\ \E c \in db.categories : c.name = "Work" /\ c.color = "purple"
    /\ db.tasks # {}
    /\ db.task_tags # {}

\* the tag rows a task is associated with
TagRowsOf(d, task_id) ==
    {t \in d.tags : [task_id |-> task_id, tag_id |-> t.id] \in d.task_tags}

\* C13: every task row has a status and a priority, and an add_task call
\* stores its task with the supplied status and priority, or with
\* "pending" and "medium" for the ones that were not supplied.
C13_StatusAndPriority ==
    /\ \A t \in db.tasks : t.status \in TaskStatus /\ t.priority \in TaskPriority
    /\ call.op = "add_task" =>
           /\ result.outcome = "returned"
           /\ TaskById(db, result.value) # {}
           /\ TaskRow(db, result.value).status =
                  IF call.task.status = Null THEN DefaultStatus
                  ELSE call.task.status
           /\ TaskRow(db, result.value).priority =
                  IF call.task.priority = Null THEN DefaultPriority
                  ELSE call.task.priority

\* C14: an add_task call whose tag list repeats a name succeeds and leaves
\* the new task associated with each distinct name once; no task is ever
\* associated twice with a tag of one name.
C14_DuplicateTagNames ==
    /\ \A t \in db.tasks :
           \A a, b \in TagRowsOf(db, t.id) : a.name = b.name => a = b
    /\ (call.op = "add_task"
            /\ Len(call.task.tags) > Cardinality(Range(call.task.tags))) =>
           /\ result.outcome = "returned"
           /\ TagNamesOf(db, result.value) = Range(call.task.tags)
           /\ Cardinality(TagRowsOf(db, result.value))
                  = Cardinality(Range(call.task.tags))

\* no two rows of a table hold the same name
UniqueNames(rows) == \A a, b \in rows : a.name = b.name => a = b

\* name is resolved in the step: afterwards exactly one row holds it, the
\* row that held it before when there was one
Resolved(before, after, name) ==
    /\ Cardinality({r \in after : r.name = name}) = 1
    /\ {r \in before : r.name = name} \subseteq {r \in after : r.name = name}

\* C16: no two category rows and no two tag rows share a name, and an
\* add_task or update_tasks call that names a category or tags resolves
\* each name to the one row of that name (the row it was resolved to
\* before, when there was one) and references it from the task.
C16_ResolveOrCreate ==
    [][ /\ UniqueNames(db.categories) /\ UniqueNames(db'.categories)
        /\ UniqueNames(db.tags) /\ UniqueNames(db'.tags)
        /\ (IsCall("add_task") /\ Truthy(call'.task.category)) =>
               /\ result'.outcome = "returned"
               /\ Resolved(db.categories, db'.categories, call'.task.category)
               /\ JoinedCategory(db', TaskRow(db', result'.value), "name")
                      = call'.task.category
        /\ (IsCall("add_task") /\ Len(call'.task.tags) > 0) =>
               /\ result'.outcome = "returned"
               /\ \A name \in Range(call'.task.tags) :
                      Resolved(db.tags, db'.tags, name)
        /\ ( /\ IsCall("update_tasks")
             /\ TaskById(db, call'.task_id) # {}
             /\ "category" \in DOMAIN call'.task_data
             /\ Truthy(call'.task_data["category"]) ) =>
               /\ result'.outcome = "returned"
               /\ Resolved(db.categories, db'.categories,
                           call'.task_data["category"])
               /\ JoinedCategory(db', TaskRow(db', call'.task_id), "name")
                      = call'.task_data["category"] ]_vars

\* every association references a task row and a tag row that exist, and
\* every task's category reference is NULL or the id of a category row
ReferencesHold(d) ==
    /\ \A p \in d.task_tags :
           /\ TaskById(d, p.task_id) # {}
           /\ \E t \in d.tags : t.id = p.tag_id
    /\ \A t \in d.tasks :
           t.category_id = NullId \/ \E c \in d.categories : c.id = t.category_id

\* C19: referential integrity holds in every reachable state.
C19_ReferentialIntegrity == ReferencesHold(db)

\* a task that had tag associations and a category has been deleted, and
\* another task with associations is left
C19_Witness ==
    /\ call.op = "delete_task"
    /\ ReturnedValue(result, TRUE)
    /\ db.task_tags # {}
    /\ \E t \in db.tags : \A p \in db.task_tags : p.tag_id # t.id

\* the row and the tag names of every task other than task_id are the same
\* in both databases
OthersUntouched(before, after, task_id) ==
    \A b \in before.tasks :
        b.id # task_id =>
            /\ b \in after.tasks
            /\ TagNamesOf(after, b.id) = TagNamesOf(before, b.id)
            /\ TagRowsOf(after, b.id) = TagRowsOf(before, b.id)

\* C20: an update_tasks or delete_task call on task a leaves the row and the
\* tag associations of every other task as they were, and an add_task call
\* leaves those of every existing task as they were.
C20_OtherTasksUntouched ==
    [][ /\ (IsCall("update_tasks") \/ IsCall("delete_task")) =>
               OthersUntouched(db, db', call'.task_id)
        /\ IsCall("add_task") => OthersUntouched(db, db', NullId) ]_vars

\* task a has been deleted and another task, with tag associations, is
\* left
C20_Witness ==
    /\ call.op = "delete_task"
    /\ ReturnedValue(result, TRUE)
    /\ \E b \in db.tasks : b.id # call.task_id /\ TagRowsOf(db, b.id) # {}

\* C18: between operations no connection opened by an earlier operation is
\* still open: every operation has closed its connection when it returns
\* control to its caller, also when a statement raised.
C18_ConnectionsReleased == unclosed = FALSE

\* C17: when two operations that interleave, each on its own connection,
\* both name a category or a tag that was absent when they began, both
\* complete successfully, the name has a single row, and both tasks
\* reference that row.
RaceTask(r) ==
    IF r.call.op = "add_task" THEN r.result.value ELSE r.call.task_id

C17_RaceSafe ==
    LET a == running[1]
        b == running[2]
    IN  (/\ a.pc = "done" /\ b.pc = "done"
         /\ a.overlap /\ b.overlap
         /\ \/ a.absent.categories \cap b.absent.categories # {}
            \/ a.absent.tags \cap b.absent.tags # {})
        => /\ a.result.outcome = "returned"
           /\ b.result.outcome = "returned"
           /\ \A n \in a.absent.categories \cap b.absent.categories :
                /\ Cardinality(CategoryByName(db, n)) = 1
                /\ \A r \in {a, b} : \A k \in TaskById(db, RaceTask(r)) :
                      k.category_id \in {c.id : c \in CategoryByName(db, n)}
           /\ \A n \in a.absent.tags \cap b.absent.tags :
                /\ Cardinality(TagByName(db, n)) = 1
                /\ \A r \in {a, b} : \A k \in TaskById(db, RaceTask(r)) :
                      \E g \in TagByName(db, n) :
                         [task_id |-> k.id, tag_id |-> g.id] \in db.task_tags

====
